---- MODULE Spec2Model ----
(***************************************************************************)
(* Cross-stitch pattern generators of the repository:                      *)
(*   src/main.py          KMeans quantiser + KDTree palette index, bitmap  *)
(*   src/cross_stitch.py  per-pixel linear-scan snapper, text grid         *)
(* A colour is a triple <<r, g, b>>.  Python indices are 0-based; TLA+     *)
(* sequences are 1-based, so Python's s[i] is s[i + 1] here.  A glyph is   *)
(* a natural number: equal numbers are the same character.                 *)
(***************************************************************************)
EXTENDS Integers, Sequences, FiniteSets, TLC

\* ------------------------------------------------------------ bounds
\* Largest max_colors a run is started with (the small input family).
MaxK == 2
\* Largest width * height of the resized image (the small input family).
MaxPixels == 4

\* ------------------------------------------------------------ helpers
Range(s) == {s[j] : j \in 1..Len(s)}

Min2(a, b) == IF a <= b THEN a ELSE b

\* Python's s[:m], negative m included.
Prefix(s, m) ==
    LET n == IF m >= 0 THEN Min2(m, Len(s))
             ELSE IF Len(s) + m > 0 THEN Len(s) + m ELSE 0
    IN  SubSeq(s, 1, n)

\* dr*dr + dg*dg + db*db: the squared Euclidean RGB distance.
Dist2(a, b) ==
    (a[1] - b[1]) * (a[1] - b[1]) + (a[2] - b[2]) * (a[2] - b[2])
        + (a[3] - b[3]) * (a[3] - b[3])

RECURSIVE FoldRange(_, _, _, _)
\* A Python for loop over lo..hi: st after Step(st, lo), ..., Step(st, hi) in
\* that order.  The range is halved so that the evaluation stays shallow on
\* long sequences; left is evaluated before the right half starts.
FoldRange(Step(_, _), st, lo, hi) ==
    IF lo > hi THEN st
    ELSE IF lo = hi THEN Step(st, lo)
    ELSE LET mid == (lo + hi) \div 2
             left == FoldRange(Step, st, lo, mid)
         IN  IF left = left THEN FoldRange(Step, left, mid + 1, hi) ELSE left

\* The least Dist2 from q to an entry of rgbs (rgbs not empty).
MinDist2(q, rgbs) ==
    FoldRange(LAMBDA m, j : Min2(m, Dist2(q, rgbs[j])),
              Dist2(q, rgbs[1]), 2, Len(rgbs))

\* A Python dict is a sequence of [key, ref] pairs in insertion order.
DictHas(d, k) == \E j \in 1..Len(d) : d[j].key = k
DictGet(d, k) == d[CHOOSE j \in 1..Len(d) : d[j].key = k].ref

\* ------------------------------------------------------------ main.py
\* self.symbols: 353 glyphs, the last one ('Ψ', Python index 352) a repeat
\* of the glyph at Python index 346.
symbols == [j \in 1..353 |-> IF j = 353 THEN 347 ELSE j]

\* The palette files the runs are started with.  An entry is one record of
\* the JSON list.  PalTie: twelve colours on the red axis, the first two as
\* far from <<150, 0, 0>> as each other.  PalDup: one identifier on two
\* entries.
PalTie == << [code |-> 321, name |-> "Red", rgb |-> <<100, 0, 0>>],
             [code |-> 666, name |-> "Bright red", rgb |-> <<200, 0, 0>>],
             [code |-> 310, name |-> "Black", rgb |-> <<0, 0, 0>>],
             [code |-> 3371, name |-> "Black brown", rgb |-> <<10, 0, 0>>],
             [code |-> 938, name |-> "Coffee", rgb |-> <<20, 0, 0>>],
             [code |-> 898, name |-> "Dark coffee", rgb |-> <<30, 0, 0>>],
             [code |-> 801, name |-> "Brown", rgb |-> <<40, 0, 0>>],
             [code |-> 606, name |-> "Orange red", rgb |-> <<255, 0, 0>>],
             [code |-> 608, name |-> "Orange", rgb |-> <<250, 0, 0>>],
             [code |-> 817, name |-> "Coral", rgb |-> <<245, 0, 0>>],
             [code |-> 349, name |-> "Dark coral", rgb |-> <<240, 0, 0>>],
             [code |-> 350, name |-> "Medium coral", rgb |-> <<235, 0, 0>>] >>
PalDup == << [code |-> 444, name |-> "Lemon", rgb |-> <<0, 0, 0>>],
             [code |-> 321, name |-> "Red", rgb |-> <<200, 0, 0>>],
             [code |-> 444, name |-> "Gold", rgb |-> <<255, 255, 255>>] >>
\* One entry more than there are symbols, all identifiers and colours distinct.
PalBig == [j \in 1..(Len(symbols) + 1) |->
             [code |-> 1000 + j, name |-> "Thread",
              rgb |-> <<j % 256, j \div 256, 0>>]]

PaletteFiles ==
    { [kind |-> "missing", data |-> <<>>],
      [kind |-> "malformed", data |-> <<>>],
      [kind |-> "json", data |-> <<>>],
      [kind |-> "json", data |-> PalTie],
      [kind |-> "json", data |-> PalDup],
      [kind |-> "json", data |-> PalBig] }

\* Cluster centres KMeans hands back in the small input family.
CentreColors == { <<0, 0, 0>>, <<150, 0, 0>>, <<250, 250, 250>> }

\* _load_dmc_palette: the parsed list, or [] with a printed error.
_load_dmc_palette(file) ==
    IF file.kind = "json"
    THEN [palette |-> file.data, printed |-> "none"]
    ELSE [palette |-> <<>>,
          printed |-> IF file.kind = "missing" THEN "not_found" ELSE "bad_json"]

\* _prepare_palette_for_tree: (codes, rgb_values) parallel to the palette.
_prepare_palette_for_tree(palette) ==
    [codes |-> [j \in 1..Len(palette) |->
                  [code |-> palette[j].code, name |-> palette[j].name,
                   rgb |-> palette[j].rgb]],
     rgb_values |-> [j \in 1..Len(palette) |-> palette[j].rgb]]

\* A tree that accepts an empty array (what C7 rules out).
KDTreeAcceptsEmpty(rgb_values) == FALSE

\* KDTree(self.dmc_rgb_values): np.array([]) has one dimension and scipy
\* raises ValueError; any non-empty list of triples builds.
KDTreeRaises(rgb_values) == Len(rgb_values) = 0

\* self.dmc_tree.query(rgb_color): an index of an entry at the least
\* distance.  Which of several equidistant entries it is depends on how the
\* tree split the points, so every one of them is a possible answer.
KDTreeQuery(rgb_values, rgb_color) ==
    LET m == MinDist2(rgb_color, rgb_values)
    IN  {j \in 1..Len(rgb_values) : Dist2(rgb_color, rgb_values[j]) = m}

\* find_closest_dmc of main.py: the possible tree answers.
find_closest_dmc(rgb_values, rgb_color) == KDTreeQuery(rgb_values, rgb_color)

\* The answer sequences the tree can give for the centres in turn: one
\* nearest index per centre, the same answer whenever the same colour is
\* asked again.
SnapAll(rgb_values, centres) ==
    FoldRange(LAMBDA S, n :
                UNION { { Append(a, idx) :
                            idx \in { c \in find_closest_dmc(rgb_values, centres[n]) :
                                        \A j \in 1..(n - 1) :
                                           centres[j] = centres[n] => a[j] = c } } :
                        a \in S },
              {<<>>}, 1, Len(centres))

\* The choice without the wrap: past the end of the alphabet every entry
\* gets the last glyph.
next_symbol_clamped(n_unique) == symbols[Min2(n_unique, Len(symbols) - 1) + 1]

\* self.symbols[len(unique_dmc_info) % len(self.symbols)]
next_symbol(n_unique) == symbols[(n_unique % Len(symbols)) + 1]

\* The loop body without the shared record: a cluster whose identifier is
\* already known gets a record of its own (a copy) instead of the known one.
map_cluster_own_record(st, e) ==
    LET ref == Len(st.heap) + 1
        fresh == [code |-> e.code, name |-> e.name, rgb |-> e.rgb,
                  symbol |-> next_symbol(Len(st.unique_dmc_info)), count |-> 0]
    IN  IF ~DictHas(st.unique_dmc_info, e.code)
        THEN [heap |-> Append(st.heap, fresh),
              unique_dmc_info |->
                  Append(st.unique_dmc_info, [key |-> e.code, ref |-> ref]),
              cluster_to_dmc_info |-> Append(st.cluster_to_dmc_info, ref)]
        ELSE [heap |-> Append(st.heap,
                              st.heap[DictGet(st.unique_dmc_info, e.code)]),
              unique_dmc_info |-> st.unique_dmc_info,
              cluster_to_dmc_info |-> Append(st.cluster_to_dmc_info, ref)]

\* One iteration of the loop over cluster_centers (main.py 139-149).  The
\* records live in heap; unique_dmc_info and cluster_to_dmc_info hold
\* references (heap indices), so two keys may refer to one record.
map_cluster(st, e) ==
    IF ~DictHas(st.unique_dmc_info, e.code)
    THEN LET ref == Len(st.heap) + 1
         IN  [heap |-> Append(st.heap,
                         [code |-> e.code, name |-> e.name, rgb |-> e.rgb,
                          symbol |-> next_symbol(Len(st.unique_dmc_info)),
                          count |-> 0]),
              unique_dmc_info |->
                  Append(st.unique_dmc_info, [key |-> e.code, ref |-> ref]),
              cluster_to_dmc_info |-> Append(st.cluster_to_dmc_info, ref)]
    ELSE [st EXCEPT !.cluster_to_dmc_info =
                        Append(@, DictGet(st.unique_dmc_info, e.code))]

\* The loop of main.py 136-149 over the cluster centres, answers[j] being
\* what find_closest_dmc returned for centre j.
map_clusters(codes, answers) ==
    FoldRange(LAMBDA st, j : map_cluster(st, codes[answers[j]]),
              [heap |-> <<>>, unique_dmc_info |-> <<>>,
               cluster_to_dmc_info |-> <<>>],
              1, Len(answers))

\* cluster_to_dmc_info.get(label): the reference, or 0 for None.
c2d_get(c2d, label) == IF label + 1 \in 1..Len(c2d) THEN c2d[label + 1] ELSE 0

\* The counting step with "if label:" for the test: label 0 is not counted.
count_label_skips_zero(hp, c2d, label) ==
    LET ref == c2d_get(c2d, label)
    IN  IF label # 0 /\ ref # 0 THEN [hp EXCEPT ![ref].count = @ + 1] ELSE hp

\* One iteration of the counting loop (main.py 153-155).
count_label(hp, c2d, label) ==
    LET ref == c2d_get(c2d, label)
    IN  IF ref # 0 THEN [hp EXCEPT ![ref].count = @ + 1] ELSE hp

\* The counting loop (main.py 152-155) over pixel_labels.
count_labels(hp, c2d, labels) ==
    FoldRange(LAMBDA h, j : count_label(h, c2d, labels[j]), hp, 1, Len(labels))

\* unique_dmc_info.values(): the records in insertion order.
dict_values(hp, d) == [j \in 1..Len(d) |-> hp[d[j].ref]]

Reverse(s) == [j \in 1..Len(s) |-> s[Len(s) + 1 - j]]

\* list.sort on the count field: a stable ascending insertion sort.
insert_by_count(t, x) ==
    LET p == Cardinality({j \in 1..Len(t) : t[j].count <= x.count})
    IN  SubSeq(t, 1, p) \o <<x>> \o SubSeq(t, p + 1, Len(t))

StableSortByCount(s) ==
    FoldRange(LAMBDA t, j : insert_by_count(t, s[j]), <<>>, 1, Len(s))

\* Sorting ascending and reversing the result: equal counts come out in the
\* opposite of their insertion order.
sorted_then_reversed(values) == Reverse(StableSortByCount(values))

\* sorted(dmc_info.values(), key=lambda x: x['count'], reverse=True):
\* CPython reverses the list, sorts it stably ascending, reverses the result.
sorted_by_count(values) ==
    Reverse(StableSortByCount(Reverse(values)))

\* One cell of _draw_cross_stitches: pixel i (0-based) goes to column
\* i % width, row i // width; a label without a record leaves the cell blank.
Blank == [filled |-> FALSE, rgb |-> <<255, 255, 255>>, symbol |-> 0]

draw_cell(cv, hp, c2d, width, i, label) ==
    LET x == i % width
        y == i \div width
        ref == c2d_get(c2d, label)
    IN  IF ref = 0 THEN cv
        ELSE [cv EXCEPT ![y + 1][x + 1] =
                 [filled |-> TRUE, rgb |-> hp[ref].rgb, symbol |-> hp[ref].symbol]]

\* _draw_cross_stitches: enumerate(pixel_labels) on canvas cv.
_draw_cross_stitches(cv, hp, c2d, width, labels) ==
    FoldRange(LAMBDA c, j : draw_cell(c, hp, c2d, width, j - 1, labels[j]),
              cv, 1, Len(labels))

\* KMeans(n_clusters=k).fit(pixels) on n pixels: sklearn raises for k < 1 and
\* for k > n; otherwise k centres and one label in 0..k-1 per pixel.
KMeansRaises(k, n) == k < 1 \/ k > n

BigK == Len(PalBig)

\* What fit can return: in the small input family any k centres and any
\* labels; for the wide image pixel j in its own cluster j, centred on the
\* j-th colour of PalBig.
KMeansOutcomes(k, n) ==
    IF k <= MaxK
    THEN { [centres |-> c, labels |-> l] :
             c \in [1..k -> CentreColors], l \in [1..n -> 0..(k - 1)] }
    ELSE { [centres |-> [j \in 1..k |-> PalBig[j].rgb],
            labels |-> [j \in 1..n |-> (j - 1) % k]] }

\* The (width, height, max_colors) a run is started with: on the small
\* palettes every small image with every small max_colors, on PalBig one
\* wide image with one cluster per pixel.
RunInputs(palette) ==
    IF palette = PalBig
    THEN { [width |-> BigK, height |-> 1, max_colors |-> BigK] }
    ELSE { inp \in [width : 1..MaxPixels, height : 1..MaxPixels,
                    max_colors : (-1)..MaxK] :
             inp.width * inp.height <= MaxPixels }

\* ------------------------------------------------------------ cross_stitch.py
\* self.dmc_palette of cross_stitch.py: the dict's items in insertion order.
cs_dmc_palette ==
    << [rgb |-> <<255, 0, 0>>, code |-> "DMC 321", name |-> "Red"],
       [rgb |-> <<0, 255, 0>>, code |-> "DMC 699", name |-> "Green"],
       [rgb |-> <<0, 0, 255>>, code |-> "DMC 798", name |-> "Blue"],
       [rgb |-> <<255, 255, 0>>, code |-> "DMC 444", name |-> "Yellow"],
       [rgb |-> <<255, 0, 255>>, code |-> "DMC 554", name |-> "Violet"],
       [rgb |-> <<0, 255, 255>>, code |-> "DMC 597", name |-> "Turquoise"],
       [rgb |-> <<128, 128, 128>>, code |-> "DMC 317", name |-> "Grey"],
       [rgb |-> <<0, 0, 0>>, code |-> "DMC 310", name |-> "Black"],
       [rgb |-> <<255, 255, 255>>, code |-> "DMC Blanc", name |-> "White"],
       [rgb |-> <<255, 165, 0>>, code |-> "DMC 606", name |-> "Orange"],
       [rgb |-> <<165, 42, 42>>, code |-> "DMC 301", name |-> "Brown"],
       [rgb |-> <<128, 0, 128>>, code |-> "DMC 550", name |-> "Purple"],
       [rgb |-> <<255, 192, 203>>, code |-> "DMC 776", name |-> "Pink"],
       [rgb |-> <<0, 128, 0>>, code |-> "DMC 701", name |-> "Dark green"],
       [rgb |-> <<0, 0, 128>>, code |-> "DMC 823", name |-> "Dark blue"],
       [rgb |-> <<128, 0, 0>>, code |-> "DMC 498", name |-> "Dark red"],
       [rgb |-> <<192, 192, 192>>, code |-> "DMC 762", name |-> "Silver"],
       [rgb |-> <<255, 215, 0>>, code |-> "DMC 444", name |-> "Gold"],
       [rgb |-> <<139, 69, 19>>, code |-> "DMC 434", name |-> "Brown"],
       [rgb |-> <<75, 0, 130>>, code |-> "DMC 333", name |-> "Violet"] >>

\* self.symbols of cross_stitch.py: 24 different glyphs.
cs_symbols == [j \in 1..24 |-> j]

\* '?', which is none of cs_symbols.
QuestionMark == 0

\* The pixel colours of the images the runs are started with: red, yellow and
\* gold (both "DMC 444"), and a dark blue as far from black as from "DMC 823".
CsColors == { <<255, 0, 0>>, <<255, 255, 0>>, <<255, 215, 0>>, <<0, 0, 64>> }

\* None, as find_closest_dmc returns it for an empty palette.
None == [code |-> "None", name |-> "None", rgb |-> <<>>]

\* One iteration of the scan of find_closest_dmc (cross_stitch.py 62-72).
\* min_distance holds the squared distance: math.sqrt is increasing and
\* keeps different sums of squares below 3 * 255 * 255 apart, so the
\* comparison is the same; float('inf') is the flag inf.
scan_entry(st, entry, rgb_color) ==
    LET distance == Dist2(rgb_color, entry.rgb)
    IN  IF st.inf \/ distance < st.min_distance
        THEN [inf |-> FALSE, min_distance |-> distance,
              closest_dmc |-> [code |-> entry.code, name |-> entry.name,
                               rgb |-> entry.rgb]]
        ELSE st

\* find_closest_dmc of cross_stitch.py.
cs_find_closest_dmc(palette, rgb_color) ==
    FoldRange(LAMBDA st, j : scan_entry(st, palette[j], rgb_color),
              [inf |-> TRUE, min_distance |-> 0, closest_dmc |-> None],
              1, Len(palette)).closest_dmc

\* Pixel i (0-based, row by row) of an image held as a sequence of rows.
PixelAt(pixels, i) == pixels[(i \div Len(pixels[1])) + 1][(i % Len(pixels[1])) + 1]

\* One pixel of the collecting loop of reduce_colors (cross_stitch.py 84-89).
collect_color(unique_dmc_colors, dmc_info) ==
    IF dmc_info # None /\ ~DictHas(unique_dmc_colors, dmc_info.code)
    THEN Append(unique_dmc_colors, [key |-> dmc_info.code, ref |-> dmc_info])
    ELSE unique_dmc_colors

\* reduce_colors without the cut to max_colors.
limit_colors_dropped(unique_dmc_colors, k) == unique_dmc_colors

\* cross_stitch.py 91-97: the first max_colors items when there are more.
limit_colors(unique_dmc_colors, k) ==
    IF Len(unique_dmc_colors) > k THEN Prefix(unique_dmc_colors, k)
    ELSE unique_dmc_colors

\* reduce_colors of cross_stitch.py.
reduce_colors(palette, pixels, k) ==
    limit_colors(
        FoldRange(LAMBDA u, j :
                    collect_color(u, cs_find_closest_dmc(palette, PixelAt(pixels, j - 1))),
                  <<>>, 1, Len(pixels) * Len(pixels[1])),
        k)

\* One item of the loop of create_pattern (cross_stitch.py 111-118); st holds
\* dmc_to_symbol and symbol_index.
assign_symbol(st, item) ==
    IF ~DictHas(st.dmc_to_symbol, item.key)
    THEN [dmc_to_symbol |->
              Append(st.dmc_to_symbol,
                     [key |-> item.key,
                      ref |-> [symbol |-> cs_symbols[(st.symbol_index % Len(cs_symbols)) + 1],
                               name |-> item.ref.name, rgb |-> item.ref.rgb]]),
          symbol_index |-> st.symbol_index + 1]
    ELSE st

\* cross_stitch.py 108-118.
assign_symbols(color_mapping) ==
    FoldRange(LAMBDA st, j : assign_symbol(st, color_mapping[j]),
              [dmc_to_symbol |-> <<>>, symbol_index |-> 0],
              1, Len(color_mapping)).dmc_to_symbol

\* One cell of the grid (cross_stitch.py 125-133).
grid_cell(palette, d2s, rgb) ==
    LET dmc_info == cs_find_closest_dmc(palette, rgb)
    IN  IF dmc_info # None /\ DictHas(d2s, dmc_info.code)
        THEN DictGet(d2s, dmc_info.code).symbol
        ELSE IF Len(d2s) > 0 THEN d2s[1].ref.symbol ELSE QuestionMark

\* cross_stitch.py 121-134: row y is appended after its cells x = 0, 1, ...
build_grid(palette, d2s, pixels) ==
    [y \in 1..Len(pixels) |->
        [x \in 1..Len(pixels[y]) |-> grid_cell(palette, d2s, pixels[y][x])]]

\* The images (as rows of pixels) of width * height <= MaxPixels pixels.
CsImages ==
    UNION { [1..d[2] -> [1..d[1] -> CsColors]] :
              d \in { e \in (1..MaxPixels) \X (1..MaxPixels) :
                        e[1] * e[2] <= MaxPixels } }

\* ------------------------------------------------------------ state
VARIABLES
    prog,                \* which program runs: "main" or "cross_stitch"
    pc,                  \* the place the run has reached
    result,              \* how the run ended ("none" while it runs)
    palette_file,        \* main.py: the palette file on disk
    printed,             \* main.py: the error _load_dmc_palette printed
    dmc_palette,         \* self.dmc_palette
    dmc_codes,           \* main.py: self.dmc_codes
    dmc_rgb_values,      \* main.py: self.dmc_rgb_values (the tree's data)
    width, height,       \* the resized image's size
    max_colors,          \* the max_colors argument
    cluster_centers,     \* main.py: kmeans.cluster_centers_.astype(int)
    pixel_labels,        \* main.py: kmeans.labels_
    answers,             \* main.py: what find_closest_dmc returned per centre
    heap,                \* main.py: the dict records of unique_dmc_info
    unique_dmc_info,     \* main.py: code -> record reference
    cluster_to_dmc_info, \* main.py: cluster index -> record reference
    canvas,              \* main.py: the cells drawn, canvas[y + 1][x + 1]
    sorted_colors,       \* main.py: the legend _draw_legend lists
    pixels,              \* cross_stitch.py: the image, pixels[y + 1][x + 1]
    color_mapping,       \* cross_stitch.py: what reduce_colors returned
    dmc_to_symbol,       \* cross_stitch.py: code -> symbol, name, rgb
    pattern_grid         \* cross_stitch.py: the rows of glyphs

vars == << prog, pc, result, palette_file, printed, dmc_palette, dmc_codes,
           dmc_rgb_values, width, height, max_colors, cluster_centers,
           pixel_labels, answers, heap, unique_dmc_info, cluster_to_dmc_info,
           canvas, sorted_colors, pixels, color_mapping, dmc_to_symbol,
           pattern_grid >>

csVars == << pixels, color_mapping, dmc_to_symbol, pattern_grid >>
mainOnlyVars == << palette_file, printed, dmc_codes, dmc_rgb_values,
                  cluster_centers, pixel_labels, answers, heap,
                  unique_dmc_info, cluster_to_dmc_info, canvas, sorted_colors >>

mainRunVars == << width, height, max_colors, cluster_centers, pixel_labels,
                  answers, heap, unique_dmc_info, cluster_to_dmc_info, canvas,
                  sorted_colors >>
mainSelfVars == << palette_file, printed, dmc_palette, dmc_codes,
                   dmc_rgb_values >>

InitMain ==
    /\ prog = "main"
    /\ pc = "new"
    /\ result = "none"
    /\ palette_file \in PaletteFiles
    /\ printed = "none"
    /\ dmc_palette = <<>>
    /\ dmc_codes = <<>>
    /\ dmc_rgb_values = <<>>
    /\ width = 0 /\ height = 0 /\ max_colors = 0
    /\ cluster_centers = <<>> /\ pixel_labels = <<>> /\ answers = <<>>
    /\ heap = <<>> /\ unique_dmc_info = <<>> /\ cluster_to_dmc_info = <<>>
    /\ canvas = <<>> /\ sorted_colors = <<>>
    /\ pixels = <<>> /\ color_mapping = <<>> /\ dmc_to_symbol = <<>>
    /\ pattern_grid = <<>>

\* cross_stitch.py after CrossStitchGenerator(): the palette is built in.
InitCs ==
    /\ prog = "cross_stitch"
    /\ pc = "constructed"
    /\ result = "none"
    /\ palette_file = [kind |-> "none", data |-> <<>>]
    /\ printed = "none"
    /\ dmc_palette = cs_dmc_palette
    /\ dmc_codes = <<>>
    /\ dmc_rgb_values = <<>>
    /\ width = 0 /\ height = 0 /\ max_colors = 0
    /\ cluster_centers = <<>> /\ pixel_labels = <<>> /\ answers = <<>>
    /\ heap = <<>> /\ unique_dmc_info = <<>> /\ cluster_to_dmc_info = <<>>
    /\ canvas = <<>> /\ sorted_colors = <<>>
    /\ pixels = <<>> /\ color_mapping = <<>> /\ dmc_to_symbol = <<>>
    /\ pattern_grid = <<>>

\* CrossStitchGenerator.__init__ of main.py: load, prepare, build the tree.
Construct ==
    /\ prog = "main" /\ pc = "new"
    /\ LET loaded == _load_dmc_palette(palette_file)
           prepared == _prepare_palette_for_tree(loaded.palette)
       IN  /\ dmc_palette' = loaded.palette
           /\ printed' = loaded.printed
           /\ dmc_codes' = prepared.codes
           /\ dmc_rgb_values' = prepared.rgb_values
           /\ IF KDTreeRaises(prepared.rgb_values)
              THEN pc' = "done" /\ result' = "init_raised"
              ELSE pc' = "constructed" /\ result' = "none"
    /\ UNCHANGED << prog, csVars, palette_file, mainRunVars >>

\* generate_pattern of main.py to line 122: the image cannot be loaded and
\* the method returns.
LoadImageFails ==
    /\ prog = "main" /\ pc = "constructed"
    /\ \E k \in (-1)..MaxK : max_colors' = k
    /\ pc' = "done" /\ result' = "no_image"
    /\ UNCHANGED << prog, csVars, mainSelfVars, width, height, cluster_centers,
                    pixel_labels, answers, heap, unique_dmc_info,
                    cluster_to_dmc_info, canvas, sorted_colors >>

\* generate_pattern of main.py to line 124: the image is loaded and resized.
LoadImage ==
    /\ prog = "main" /\ pc = "constructed"
    /\ \E inp \in RunInputs(dmc_palette) :
          /\ width' = inp.width
          /\ height' = inp.height
          /\ max_colors' = inp.max_colors
    /\ pc' = "kmeans"
    /\ UNCHANGED << prog, csVars, result, mainSelfVars, cluster_centers, pixel_labels,
                    answers, heap, unique_dmc_info, cluster_to_dmc_info,
                    canvas, sorted_colors >>

\* main.py 128-129 when KMeans raises: the exception leaves generate_pattern.
FitKMeansRaises ==
    /\ prog = "main" /\ pc = "kmeans"
    /\ KMeansRaises(max_colors, width * height)
    /\ pc' = "done" /\ result' = "kmeans_raised"
    /\ UNCHANGED << prog, csVars, mainSelfVars, mainRunVars >>

\* main.py 128-133: the cluster centres and the label of every pixel.
FitKMeans ==
    /\ prog = "main" /\ pc = "kmeans"
    /\ ~KMeansRaises(max_colors, width * height)
    /\ \E out \in KMeansOutcomes(max_colors, width * height) :
          /\ cluster_centers' = out.centres
          /\ pixel_labels' = out.labels
    /\ pc' = "map"
    /\ UNCHANGED << prog, csVars, result, mainSelfVars, width, height, max_colors,
                    answers, heap, unique_dmc_info, cluster_to_dmc_info,
                    canvas, sorted_colors >>

\* main.py 136-149: snap every centre and build the two tables.
MapClusters ==
    /\ prog = "main" /\ pc = "map"
    /\ \E a \in SnapAll(dmc_rgb_values, cluster_centers) :
          LET st == map_clusters(dmc_codes, a)
          IN  /\ answers' = a
              /\ heap' = st.heap
              /\ unique_dmc_info' = st.unique_dmc_info
              /\ cluster_to_dmc_info' = st.cluster_to_dmc_info
    /\ pc' = "count"
    /\ UNCHANGED << prog, csVars, result, mainSelfVars, width, height, max_colors,
                    cluster_centers, pixel_labels, canvas, sorted_colors >>

\* main.py 152-155: count the stitches of every colour.
CountStitches ==
    /\ prog = "main" /\ pc = "count"
    /\ heap' = count_labels(heap, cluster_to_dmc_info, pixel_labels)
    /\ pc' = "draw"
    /\ UNCHANGED << prog, csVars, result, mainSelfVars, width, height, max_colors,
                    cluster_centers, pixel_labels, answers, unique_dmc_info,
                    cluster_to_dmc_info, canvas, sorted_colors >>

\* main.py 190: every cell of the grid.
DrawCrossStitches ==
    /\ prog = "main" /\ pc = "draw"
    /\ canvas' = _draw_cross_stitches(
                     [y \in 1..height |-> [x \in 1..width |-> Blank]],
                     heap, cluster_to_dmc_info, width, pixel_labels)
    /\ pc' = "legend"
    /\ UNCHANGED << prog, csVars, result, mainSelfVars, width, height, max_colors,
                    cluster_centers, pixel_labels, answers, heap,
                    unique_dmc_info, cluster_to_dmc_info, sorted_colors >>

\* main.py 193 and 196-197: the legend, then the file is saved.
DrawLegend ==
    /\ prog = "main" /\ pc = "legend"
    /\ sorted_colors' = sorted_by_count(dict_values(heap, unique_dmc_info))
    /\ pc' = "done" /\ result' = "saved"
    /\ UNCHANGED << prog, csVars, mainSelfVars, width, height, max_colors,
                    cluster_centers, pixel_labels, answers, heap,
                    unique_dmc_info, cluster_to_dmc_info, canvas >>

\* generate_pattern of cross_stitch.py to line 240: no image, and
\* (None, None, 0, 0) is returned.
CsLoadImageFails ==
    /\ prog = "cross_stitch" /\ pc = "constructed"
    /\ \E k \in (-1)..MaxK : max_colors' = k
    /\ pc' = "done" /\ result' = "no_image"
    /\ UNCHANGED << prog, dmc_palette, mainOnlyVars, width, height, csVars >>

\* generate_pattern of cross_stitch.py to line 242: the resized image.
CsLoadImage ==
    /\ prog = "cross_stitch" /\ pc = "constructed"
    /\ \E img \in CsImages, k \in (-1)..MaxK :
          /\ pixels' = img
          /\ width' = Len(img[1])
          /\ height' = Len(img)
          /\ max_colors' = k
    /\ pc' = "reduce"
    /\ UNCHANGED << prog, result, dmc_palette, mainOnlyVars, color_mapping,
                    dmc_to_symbol, pattern_grid >>

\* create_pattern, line 105: color_mapping = self.reduce_colors(...).
CsReduceColors ==
    /\ prog = "cross_stitch" /\ pc = "reduce"
    /\ color_mapping' = reduce_colors(dmc_palette, pixels, max_colors)
    /\ pc' = "symbols"
    /\ UNCHANGED << prog, result, dmc_palette, mainOnlyVars, width, height,
                    max_colors, pixels, dmc_to_symbol, pattern_grid >>

\* create_pattern, lines 108-118: one symbol per kept colour.
CsAssignSymbols ==
    /\ prog = "cross_stitch" /\ pc = "symbols"
    /\ dmc_to_symbol' = assign_symbols(color_mapping)
    /\ pc' = "grid"
    /\ UNCHANGED << prog, result, dmc_palette, mainOnlyVars, width, height,
                    max_colors, pixels, color_mapping, pattern_grid >>

\* create_pattern, lines 121-136, and generate_pattern returns the pattern.
CsBuildGrid ==
    /\ prog = "cross_stitch" /\ pc = "grid"
    /\ pattern_grid' = build_grid(dmc_palette, dmc_to_symbol, pixels)
    /\ pc' = "done" /\ result' = "returned"
    /\ UNCHANGED << prog, dmc_palette, mainOnlyVars, width, height,
                    max_colors, pixels, color_mapping, dmc_to_symbol >>

Init == InitMain \/ InitCs


Next ==
    \/ Construct
    \/ LoadImageFails
    \/ LoadImage
    \/ FitKMeansRaises
    \/ FitKMeans
    \/ MapClusters
    \/ CountStitches
    \/ DrawCrossStitches
    \/ DrawLegend
    \/ CsLoadImageFails
    \/ CsLoadImage
    \/ CsReduceColors
    \/ CsAssignSymbols
    \/ CsBuildGrid

Spec == Init /\ [][Next]_vars

\* ------------------------------------------------------------ properties
\* The tables exist: the loop of main.py 136-149 has run.
Mapped == prog = "main" /\ pc \in {"count", "draw", "legend"} \cup
              (IF result = "saved" THEN {"done"} ELSE {})
\* The counting loop of main.py 152-155 has run as well.
Counted == prog = "main" /\ (pc \in {"draw", "legend"} \/ result = "saved")

\* generate_pattern has its image and has gone on to the colours.
RunStarted ==
    pc \notin {"new", "constructed"} /\ result \notin {"init_raised", "no_image"}

\* The identifier cluster c (1-based) was snapped to.
CodeOfCluster(c) == dmc_codes[answers[c]].code

\* The index of the earliest entry of rgbs at the least distance from q.
EarliestNearest(rgbs, q) ==
    LET m == MinDist2(q, rgbs)
    IN  CHOOSE j \in 1..Len(rgbs) :
           /\ Dist2(q, rgbs[j]) = m
           /\ \A i \in 1..(j - 1) : Dist2(q, rgbs[i]) # m

CsRgbs == [j \in 1..Len(cs_dmc_palette) |-> cs_dmc_palette[j].rgb]

\* The entry cross_stitch.py's own lookup gives pixel (x, y).
CsOwn(y, x) == cs_find_closest_dmc(dmc_palette, pixels[y][x])

SumCounts(records) ==
    FoldRange(LAMBDA t, j : t + records[j].count, 0, 1, Len(records))

\* C2: after the counting loop of main.py the counts of the legend entries
\* (the values of unique_dmc_info) add up to width * height.
C2_CountsSumToPixels ==
    Counted => SumCounts(dict_values(heap, unique_dmc_info)) = width * height

\* C2's case: four pixels shared out between two legend entries.
C2_Witness ==
    /\ Counted
    /\ width * height = 4
    /\ Len(unique_dmc_info) = 2
    /\ \A j \in 1..Len(heap) : heap[j].count > 0

\* C3: two different identifiers never get the same glyph, in the symbol
\* table of main.py (unique_dmc_info) and in that of cross_stitch.py
\* (dmc_to_symbol).
C3_GlyphsInjective ==
    /\ Mapped =>
          \A i, j \in 1..Len(unique_dmc_info) :
             unique_dmc_info[i].key # unique_dmc_info[j].key =>
                heap[unique_dmc_info[i].ref].symbol
                    # heap[unique_dmc_info[j].ref].symbol
    /\ prog = "cross_stitch" =>
          \A i, j \in 1..Len(dmc_to_symbol) :
             dmc_to_symbol[i].key # dmc_to_symbol[j].key =>
                dmc_to_symbol[i].ref.symbol # dmc_to_symbol[j].ref.symbol

\* The glyphs of the filled cells of main.py's canvas.
CanvasGlyphs ==
    UNION { { canvas[y][x].symbol :
                x \in { x \in 1..Len(canvas[y]) : canvas[y][x].filled } } :
            y \in 1..Len(canvas) }

\* The glyphs of cross_stitch.py's grid.
GridGlyphs ==
    UNION { Range(pattern_grid[y]) : y \in 1..Len(pattern_grid) }

\* C4: with max_colors >= 1 the pattern uses at most max_colors palette
\* entries: the symbol table has at most max_colors entries and the grid
\* holds at most max_colors different glyphs.
C4_AtMostKColors ==
    /\ (Mapped /\ max_colors >= 1) =>
          /\ Len(unique_dmc_info) <= max_colors
          /\ Cardinality(CanvasGlyphs) <= max_colors
    /\ (prog = "cross_stitch" /\ RunStarted /\ max_colors >= 1) =>
          /\ Len(color_mapping) <= max_colors
          /\ Len(dmc_to_symbol) <= max_colors
          /\ Cardinality(GridGlyphs) <= max_colors

\* C4's case: cross_stitch.py returns a pattern of an image with more
\* colours than max_colors allows.
C4_Witness ==
    /\ prog = "cross_stitch" /\ result = "returned"
    /\ max_colors >= 1
    /\ Len(dmc_to_symbol) = max_colors
    /\ \E y \in 1..Len(pixels) : \E x \in 1..Len(pixels[y]) :
          ~DictHas(dmc_to_symbol, CsOwn(y, x).code)

\* C5: a run that ends as a success has a complete grid in which every cell
\* shows the glyph of its own pixel's palette entry; anything else ends as a
\* failure.  Stated for the runs started with max_colors >= 1.
C5_NoSubstituteGlyph ==
    /\ (prog = "cross_stitch" /\ result = "returned" /\ max_colors >= 1) =>
          /\ Len(pattern_grid) = height
          /\ \A y \in 1..height :
                /\ Len(pattern_grid[y]) = width
                /\ \A x \in 1..width :
                      /\ DictHas(dmc_to_symbol, CsOwn(y, x).code)
                      /\ pattern_grid[y][x]
                            = DictGet(dmc_to_symbol, CsOwn(y, x).code).symbol
    /\ (prog = "main" /\ result = "saved") =>
          \A i \in 1..Len(pixel_labels) :
             LET cell == canvas[((i - 1) \div width) + 1][((i - 1) % width) + 1]
             IN  /\ cell.filled
                 /\ cell.symbol
                       = heap[DictGet(unique_dmc_info,
                                      CodeOfCluster(pixel_labels[i] + 1))].symbol

\* C6: started with max_colors < 1, colour reduction fails: no symbol table,
\* grid or legend is produced and the run does not end as a success.
C6_InvalidKFails ==
    (RunStarted /\ max_colors < 1) =>
        /\ result \notin {"returned", "saved"}
        /\ unique_dmc_info = <<>> /\ canvas = <<>> /\ sorted_colors = <<>>
        /\ dmc_to_symbol = <<>> /\ pattern_grid = <<>>
        /\ pc = "done" => result = "kmeans_raised"

\* C7: with the palette file missing or malformed _load_dmc_palette prints
\* the error and gives the empty palette, the tree cannot be built over it
\* and __init__ raises: no generator with an empty palette is constructed
\* and find_closest_dmc is never asked over an empty palette.
C7_EmptyPaletteNeverConstructed ==
    prog = "main" =>
        /\ (palette_file.kind \in {"missing", "malformed"} /\ pc # "new") =>
              /\ printed # "none"
              /\ dmc_palette = <<>>
              /\ pc = "done" /\ result = "init_raised"
        /\ (pc # "new" /\ result # "init_raised") =>
              Len(dmc_palette) > 0 /\ Len(dmc_rgb_values) > 0
        /\ Len(answers) > 0 => Len(dmc_rgb_values) > 0

\* C7's case: the file is missing and __init__ has raised.
C7_Witness ==
    /\ prog = "main" /\ palette_file.kind = "missing"
    /\ printed = "not_found" /\ dmc_palette = <<>>
    /\ pc = "done" /\ result = "init_raised"

\* The first cluster (1-based) snapped to identifier code.
FirstCluster(code) ==
    CHOOSE c \in 1..Len(answers) :
       /\ CodeOfCluster(c) = code
       /\ \A d \in 1..(c - 1) : CodeOfCluster(d) # code

\* C8: the legend lists every entry of unique_dmc_info once, in
\* non-increasing order of count, entries of equal count in the order in
\* which their identifiers were first met over the cluster centres (each
\* entry is compared with the next one, which orders all of them).
C8_LegendSortedStable ==
    (prog = "main" /\ result = "saved") =>
        /\ Len(sorted_colors) = Len(unique_dmc_info)
        /\ \A u \in 1..Len(unique_dmc_info) :
              \E j \in 1..Len(sorted_colors) :
                 sorted_colors[j] = heap[unique_dmc_info[u].ref]
        /\ \A i \in 1..(Len(sorted_colors) - 1) :
              /\ sorted_colors[i].count >= sorted_colors[i + 1].count
              /\ sorted_colors[i].count = sorted_colors[i + 1].count =>
                    FirstCluster(sorted_colors[i].code)
                        < FirstCluster(sorted_colors[i + 1].code)

\* C8's case: a legend of two entries of equal count, and one of two
\* entries where the later met has the larger count, are both drawn; this
\* is the first of them.
C8_Witness ==
    /\ prog = "main" /\ result = "saved"
    /\ Len(sorted_colors) = 2
    /\ sorted_colors[1].count = sorted_colors[2].count
    /\ sorted_colors[1].count > 0

\* C9: no entry of the legend has a count of zero.
C9_NoZeroCount ==
    (prog = "main" /\ result = "saved") =>
        \A j \in 1..Len(sorted_colors) : sorted_colors[j].count > 0

\* The pixels labelled with a cluster snapped to identifier code.
PixelsOfCode(code) ==
    { i \in 1..Len(pixel_labels) : CodeOfCluster(pixel_labels[i] + 1) = code }

\* C10: the record is per identifier: clusters snapped to one identifier
\* refer to one record, the one unique_dmc_info holds for it, with one
\* glyph, and after counting its count is the number of pixels labelled with
\* any of those clusters.
C10_SharedRecordPerCode ==
    Counted =>
        /\ \A c, d \in 1..Len(cluster_to_dmc_info) :
              CodeOfCluster(c) = CodeOfCluster(d) =>
                 cluster_to_dmc_info[c] = cluster_to_dmc_info[d]
        /\ \A c \in 1..Len(cluster_to_dmc_info) :
              /\ cluster_to_dmc_info[c]
                    = DictGet(unique_dmc_info, CodeOfCluster(c))
              /\ heap[cluster_to_dmc_info[c]].code = CodeOfCluster(c)
              /\ heap[cluster_to_dmc_info[c]].count
                    = Cardinality(PixelsOfCode(CodeOfCluster(c)))

\* C10's case: two clusters on one identifier, both with pixels.
C10_Witness ==
    /\ Counted
    /\ \E c, d \in 1..Len(answers) :
          /\ c # d /\ CodeOfCluster(c) = CodeOfCluster(d)
          /\ \E i, j \in 1..Len(pixel_labels) :
                pixel_labels[i] + 1 = c /\ pixel_labels[j] + 1 = d

\* The cell of main.py's canvas that pixel i (1-based position in
\* pixel_labels, flattened index i - 1) belongs to.
CellOfPixel(i) == canvas[((i - 1) \div width) + 1][((i - 1) % width) + 1]

\* The palette entry the lookup returned for the cluster of pixel i.
EntryOfPixel(i) == dmc_codes[answers[pixel_labels[i] + 1]]

\* C11: the cell at column x, row y, of the pixel of flattened index
\* i = y * width + x shows the glyph and the colour of the palette entry the
\* lookup returned for that pixel's cluster centre (main.py) or for that
\* pixel's own colour (cross_stitch.py), and of no other entry.
C11_CellShowsLookedUpEntry ==
    /\ (prog = "main" /\ (pc = "legend" \/ result = "saved")) =>
          \A i \in 1..Len(pixel_labels) :
             /\ CellOfPixel(i).filled
             /\ CellOfPixel(i).symbol
                   = heap[DictGet(unique_dmc_info, EntryOfPixel(i).code)].symbol
             /\ CellOfPixel(i).rgb = EntryOfPixel(i).rgb
    /\ (prog = "cross_stitch" /\ result = "returned") =>
          /\ Len(pattern_grid) = height
          /\ \A y \in 1..height :
                /\ Len(pattern_grid[y]) = width
                /\ \A x \in 1..width :
                      /\ DictHas(dmc_to_symbol, CsOwn(y, x).code)
                      /\ pattern_grid[y][x]
                            = DictGet(dmc_to_symbol, CsOwn(y, x).code).symbol
                      /\ DictGet(dmc_to_symbol, CsOwn(y, x).code).rgb
                            = CsOwn(y, x).rgb

\* The identifiers snapped to by the clusters before cluster c (1-based).
SeenBefore(c) == { CodeOfCluster(d) : d \in 1..(c - 1) }

\* The first pixel, in row-major order from 0, that cross_stitch.py's lookup
\* gives identifier code.
FirstPixel(code) ==
    CHOOSE p \in 0..(width * height - 1) :
       /\ CsOwn((p \div width) + 1, (p % width) + 1).code = code
       /\ \A q \in 0..(p - 1) :
             CsOwn((q \div width) + 1, (q % width) + 1).code # code

\* C12: glyphs go out in first-seen order with wrap: in main.py a cluster
\* whose identifier was not met on an earlier cluster, i identifiers having
\* been met before it, gets symbols[i mod len(symbols)], and a cluster whose
\* identifier was met gets that identifier's glyph; in cross_stitch.py the
\* i-th identifier of the table, in the order of first appearance over the
\* pixels, gets symbols[i mod len(symbols)].
C12_GlyphsFirstSeenWrap ==
    /\ Mapped =>
          \A c \in 1..Len(answers) :
             LET glyph == heap[cluster_to_dmc_info[c]].symbol
             IN  IF CodeOfCluster(c) \notin SeenBefore(c)
                 THEN glyph
                        = symbols[(Cardinality(SeenBefore(c)) % Len(symbols)) + 1]
                 ELSE \A d \in 1..(c - 1) :
                         CodeOfCluster(d) = CodeOfCluster(c) =>
                            heap[cluster_to_dmc_info[d]].symbol = glyph
    /\ (prog = "cross_stitch" /\ pc \in {"grid", "done"} /\ RunStarted) =>
          \A j \in 1..Len(dmc_to_symbol) :
             /\ dmc_to_symbol[j].ref.symbol
                   = cs_symbols[((j - 1) % Len(cs_symbols)) + 1]
             /\ \A i \in 1..(j - 1) :
                   FirstPixel(dmc_to_symbol[i].key)
                       < FirstPixel(dmc_to_symbol[j].key)

\* C12's case: more identifiers than glyphs, and the first identifier past
\* the end of the alphabet has the first identifier's glyph.
C12_Witness ==
    /\ Mapped
    /\ Len(unique_dmc_info) = Len(symbols) + 1
    /\ heap[unique_dmc_info[Len(symbols) + 1].ref].symbol = symbols[1]
    /\ heap[unique_dmc_info[1].ref].symbol = symbols[1]

\* C13: the palette in use lists no identifier twice, so the records keyed
\* by identifier stand for one palette colour each: every cluster of main.py
\* and every pixel of cross_stitch.py has, in its identifier's record, the
\* colour of the entry its own lookup returned.
C13_NoDuplicateIdentifiers ==
    /\ \A i, j \in 1..Len(dmc_palette) :
          dmc_palette[i].code = dmc_palette[j].code => i = j
    /\ Mapped =>
          \A c \in 1..Len(answers) :
             heap[cluster_to_dmc_info[c]].rgb = dmc_codes[answers[c]].rgb
    /\ (prog = "cross_stitch" /\ result = "returned") =>
          \A y \in 1..Len(pixels) : \A x \in 1..Len(pixels[y]) :
             DictHas(dmc_to_symbol, CsOwn(y, x).code) =>
                DictGet(dmc_to_symbol, CsOwn(y, x).code).rgb = CsOwn(y, x).rgb

====
